---- MODULE Spec2Model ----
(***************************************************************************)
(* QueriesFilter.filter (src/sample.py): a comma separated term query is   *)
(* resolved against a redis set index and combined into an id__in filter   *)
(* or an id__in exclusion of the record queryset.                          *)
(*                                                                         *)
(* Strings are sequences of one-character strings, so that startswith,     *)
(* replace, strip, split and the glob matching of redis KEYS are computed  *)
(* and not assumed.                                                        *)
(***************************************************************************)
EXTENDS Integers, Sequences, FiniteSets, TLC

VARIABLES value, index, pc, r, queries, i, ids_include, ids_exclude,
          terms, outcome, storeFailed

vars == <<value, index, pc, r, queries, i, ids_include, ids_exclude,
          terms, outcome, storeFailed>>

----------------------------------------------------------------------------
(* Bounds *)

MaxTerms == 2

MaxId == 2

Ids == 1..MaxId

----------------------------------------------------------------------------
(* Python str operations, on sequences of characters *)

Whitespace == {" "}

StartsWith(s, c) == Len(s) > 0 /\ s[1] = c

RECURSIVE Replace(_, _)
Replace(s, c) ==
    IF s = <<>> THEN <<>>
    ELSE IF Head(s) = c THEN Replace(Tail(s), c)
    ELSE <<Head(s)>> \o Replace(Tail(s), c)

RECURSIVE LStrip(_)
LStrip(s) ==
    IF s # <<>> /\ Head(s) \in Whitespace THEN LStrip(Tail(s)) ELSE s

RECURSIVE RStrip(_)
RStrip(s) ==
    IF s # <<>> /\ s[Len(s)] \in Whitespace
    THEN RStrip(SubSeq(s, 1, Len(s) - 1)) ELSE s

Strip(s) == RStrip(LStrip(s))

\* str.split(','): the pieces between the commas, empty pieces kept
RECURSIVE SplitFrom(_, _)
SplitFrom(s, cur) ==
    IF s = <<>> THEN <<cur>>
    ELSE IF Head(s) = "," THEN <<cur>> \o SplitFrom(Tail(s), <<>>)
    ELSE SplitFrom(Tail(s), Append(cur, Head(s)))

Split(s) == SplitFrom(s, <<>>)

RECURSIVE Join(_)
Join(pieces) ==
    IF pieces = <<>> THEN <<>>
    ELSE IF Len(pieces) = 1 THEN pieces[1]
    ELSE pieces[1] \o <<",">> \o Join(Tail(pieces))

\* the filter value: None, or a str
None == [isNone |-> TRUE, s |-> <<>>]

Str(s) == [isNone |-> FALSE, s |-> s]

\* `not value`
NotEmptyOnlyNone(v) == v.isNone

Not(v) == v.isNone \/ v.s = <<>>

----------------------------------------------------------------------------
(* The redis index *)

QUERYINDEX_PREFIX == <<"n">>

\* f"{settings.QUERYINDEX_PREFIX}_{word}"
Key(word) == QUERYINDEX_PREFIX \o <<"_">> \o word

\* f"{settings.QUERYINDEX_PREFIX}_{word}*"
Pattern(word) == Key(word) \o <<"*">>

\* redis glob matching of KEYS, for the metacharacters * and ?
RECURSIVE GlobMatch(_, _)
GlobMatch(p, s) ==
    IF p = <<>> THEN s = <<>>
    ELSE IF Head(p) = "*"
         THEN GlobMatch(Tail(p), s) \/ (s # <<>> /\ GlobMatch(p, Tail(s)))
    ELSE IF Head(p) = "?"
         THEN s # <<>> /\ GlobMatch(Tail(p), Tail(s))
    ELSE s # <<>> /\ Head(s) = Head(p) /\ GlobMatch(Tail(p), Tail(s))

KeysExactOnly(pattern, idx) ==
    {k \in DOMAIN idx : k \o <<"*">> = pattern}

\* r.keys(pattern)
Keys(pattern, idx) == {k \in DOMAIN idx : GlobMatch(pattern, k)}

SMembersPrefix(key, idx) ==
    UNION {idx[k] : k \in {k2 \in DOMAIN idx :
                             Len(k2) >= Len(key) /\ SubSeq(k2, 1, Len(key)) = key}}

\* r.smembers(key)
SMembers(key, idx) == IF key \in DOMAIN idx THEN idx[key] ELSE {}

\* r.sunion(*keys)
SUnion(keys, idx) == UNION {idx[k] : k \in keys}

----------------------------------------------------------------------------
(* Parsing and resolving one piece of the query *)

\* the branch taken for a piece and the word it looks up
Term(piece) ==
    IF StartsWith(piece, "!")
    THEN [variant |-> "ExactInclude", word |-> Strip(Replace(piece, "!"))]
    ELSE IF StartsWith(piece, "-")
    THEN [variant |-> "PrefixExclude", word |-> Strip(Replace(piece, "-"))]
    ELSE [variant |-> "PrefixInclude", word |-> Strip(piece)]

ContributesAlways(keys) == TRUE

\* `if not keys: continue`
Contributes(keys) == keys # {}

\* one iteration of the loop: the calls made and the set appended, if any
Resolve(piece, idx) ==
    LET t == Term(piece) IN
    IF t.variant = "ExactInclude"
    THEN [piece |-> piece, variant |-> t.variant, word |-> t.word,
          scanned |-> FALSE, keys |-> {},
          ids |-> SMembers(Key(t.word), idx), contributed |-> TRUE]
    ELSE LET keys == Keys(Pattern(t.word), idx) IN
         [piece |-> piece, variant |-> t.variant, word |-> t.word,
          scanned |-> TRUE, keys |-> keys,
          ids |-> IF Contributes(keys) THEN SUnion(keys, idx) ELSE {},
          contributed |-> Contributes(keys)]

IncludeAfter(inc, t) ==
    IF t.contributed /\ t.variant \in {"ExactInclude", "PrefixInclude"}
    THEN Append(inc, t.ids) ELSE inc

ExcludeAfter(exc, t) ==
    IF t.contributed /\ t.variant = "PrefixExclude"
    THEN Append(exc, t.ids) ELSE exc

\* the store calls of one iteration, in order
StoreCalls(piece, idx) ==
    LET t == Resolve(piece, idx) IN
    IF ~t.scanned THEN {"smembers"}
    ELSE IF t.contributed THEN {"keys", "sunion"} ELSE {"keys"}

----------------------------------------------------------------------------
(* Combining *)

SetIntersectionFirst(sets) == sets[1]

\* set.intersection(*sets), for a non-empty list
RECURSIVE SetIntersection(_)
SetIntersection(sets) ==
    IF Len(sets) = 1 THEN sets[1]
    ELSE sets[1] \cap SetIntersection(Tail(sets))

\* set.union(*sets), for a non-empty list
RECURSIVE SetUnion(_)
SetUnion(sets) ==
    IF Len(sets) = 1 THEN sets[1]
    ELSE sets[1] \cup SetUnion(Tail(sets))

NoOutcome == [kind |-> "none", ids |-> {}, error |-> "none"]

Unfiltered == [kind |-> "qs", ids |-> {}, error |-> "none"]

KeepOnly(ids) == [kind |-> "KeepOnly", ids |-> ids, error |-> "none"]

DropOnly(ids) == [kind |-> "DropOnly", ids |-> ids, error |-> "none"]

Raised(error) == [kind |-> "raised", ids |-> {}, error |-> error]

\* lines 84-97
Combine(inc, exc) ==
    IF inc # <<>>
    THEN LET good_ids == SetIntersection(inc) IN
         IF exc # <<>>
         THEN KeepOnly(good_ids \ SetUnion(exc))
         ELSE KeepOnly(good_ids)
    ELSE IF exc = <<>>
         THEN Raised("TypeError")
         ELSE DropOnly(SetUnion(exc))

OnStoreErrorSwallow(inc, exc) == Unfiltered

\* an exception of a store call is not caught anywhere in filter
OnStoreError(inc, exc) == Raised("StoreError")

\* the whole loop, lines 48-82
RECURSIVE Loop(_, _, _, _)
Loop(pieces, idx, inc, exc) ==
    IF pieces = <<>> THEN <<inc, exc>>
    ELSE LET t == Resolve(Head(pieces), idx) IN
         Loop(Tail(pieces), idx, IncludeAfter(inc, t), ExcludeAfter(exc, t))

\* filter(qs, value) when no store call fails
Filter(v, idx) ==
    IF Not(v) THEN Unfiltered
    ELSE LET l == Loop(Split(v.s), idx, <<>>, <<>>) IN Combine(l[1], l[2])

----------------------------------------------------------------------------
(* Inputs *)

TokenSet ==
    { <<"a">>, <<"!", "a">>, <<"-", "b">>, <<>>, <<" ", "!", "a">>,
      <<"*", "b">> }

\* the worked queries "a,!b,-c" and "!a!b" beside the enumerated ones
ExampleQueries ==
    { << <<"a">>, <<"!", "a">>, <<"-", "b">> >>,
      << <<"!", "a", "!", "b">> >> }

KeyUniverse == { Key(<<"a">>), Key(<<"a", "b">>), Key(<<"b">>) }

\* a key of the shared store that is not under the index namespace
ForeignKey == <<"x", "_", "a">>

TokenSeqs == UNION { [1..n -> TokenSet] : n \in 0..MaxTerms }

Values == {None} \cup { Str(Join(q)) : q \in TokenSeqs \cup ExampleQueries }

\* redis holds no empty set: a key whose set is empty does not exist
IndexOf(f) ==
    [k \in {k2 \in KeyUniverse : f[k2] # {}} \cup {ForeignKey} |->
        IF k \in KeyUniverse THEN f[k] ELSE Ids]

Indexes == { IndexOf(f) : f \in [KeyUniverse -> SUBSET Ids] }

----------------------------------------------------------------------------
(* The state machine *)

Init ==
    /\ value \in Values
    /\ index \in Indexes
    /\ pc = "start"
    /\ r = "none"
    /\ queries = <<>>
    /\ i = 1
    /\ ids_include = <<>>
    /\ ids_exclude = <<>>
    /\ terms = <<>>
    /\ outcome = NoOutcome
    /\ storeFailed = FALSE

\* lines 42-43
ReturnUnfiltered ==
    /\ pc = "start"
    /\ Not(value)
    /\ outcome' = Unfiltered
    /\ pc' = "done"
    /\ UNCHANGED <<value, index, r, queries, i, ids_include, ids_exclude,
                   terms, storeFailed>>

\* lines 45-49
Connect ==
    /\ pc = "start"
    /\ ~Not(value)
    /\ queries' = Split(value.s)
    /\ r' = "client"
    /\ pc' = "loop"
    /\ UNCHANGED <<value, index, i, ids_include, ids_exclude, terms,
                   outcome, storeFailed>>

Iterate(variant) ==
    /\ pc = "loop"
    /\ i <= Len(queries)
    /\ LET t == Resolve(queries[i], index) IN
       /\ t.variant = variant
       /\ ids_include' = IncludeAfter(ids_include, t)
       /\ ids_exclude' = ExcludeAfter(ids_exclude, t)
       /\ terms' = Append(terms, t)
    /\ i' = i + 1
    /\ UNCHANGED <<value, index, pc, r, queries, outcome, storeFailed>>

\* lines 51-58
ExactInclude == Iterate("ExactInclude")

\* lines 60-70
PrefixExclude == Iterate("PrefixExclude")

\* lines 72-82
PrefixInclude == Iterate("PrefixInclude")

\* lines 84-97
Finish ==
    /\ pc = "loop"
    /\ i > Len(queries)
    /\ outcome' = Combine(ids_include, ids_exclude)
    /\ pc' = IF outcome'.kind = "raised" THEN "raised" ELSE "done"
    /\ UNCHANGED <<value, index, r, queries, i, ids_include, ids_exclude,
                   terms, storeFailed>>

\* cache.client.connect() raises
ConnectError ==
    /\ pc = "start"
    /\ ~Not(value)
    /\ queries' = Split(value.s)
    /\ storeFailed' = TRUE
    /\ outcome' = OnStoreError(ids_include, ids_exclude)
    /\ pc' = IF outcome'.kind = "raised" THEN "raised" ELSE "done"
    /\ UNCHANGED <<value, index, r, i, ids_include, ids_exclude, terms>>

\* r.smembers, r.keys or r.sunion raises in the current iteration
StoreError ==
    /\ pc = "loop"
    /\ i <= Len(queries)
    /\ \E call \in StoreCalls(queries[i], index) :
         /\ storeFailed' = TRUE
         /\ outcome' = OnStoreError(ids_include, ids_exclude)
         /\ pc' = IF outcome'.kind = "raised" THEN "raised" ELSE "done"
    /\ UNCHANGED <<value, index, r, queries, i, ids_include, ids_exclude,
                   terms>>

Next ==
    \/ ReturnUnfiltered
    \/ Connect
    \/ ExactInclude
    \/ PrefixExclude
    \/ PrefixInclude
    \/ Finish
    \/ ConnectError
    \/ StoreError

Spec == Init /\ [][Next]_vars

----------------------------------------------------------------------------
(* What the specification says, for comparison with the code *)

BeginsWith(k, prefix) ==
    Len(k) >= Len(prefix) /\ SubSeq(k, 1, Len(prefix)) = prefix

\* the index keys beginning with the literal string namespace+w
LiteralPrefixKeys(w) == {k \in DOMAIN index : BeginsWith(k, Key(w))}

prefixUnion(w) == UNION {index[k] : k \in LiteralPrefixKeys(w)}

exact(w) == IF Key(w) \in DOMAIN index THEN index[Key(w)] ELSE {}

\* the parser of the specification: trim, classify, drop one marker, trim
SpecTerm(piece) ==
    LET p == Strip(piece) IN
    IF StartsWith(p, "!")
    THEN [variant |-> "ExactInclude", word |-> Strip(Tail(p))]
    ELSE IF StartsWith(p, "-")
    THEN [variant |-> "PrefixExclude", word |-> Strip(Tail(p))]
    ELSE [variant |-> "PrefixInclude", word |-> p]

IsEmptyValue == value.isNone \/ value.s = <<>>

\* the evaluation ended and no store call failed
Finished == pc \in {"done", "raised"} /\ ~storeFailed /\ ~IsEmptyValue

IncTerms ==
    {k \in 1..Len(terms) : terms[k].contributed
        /\ terms[k].variant \in {"ExactInclude", "PrefixInclude"}}

ExcTerms ==
    {k \in 1..Len(terms) : terms[k].contributed
        /\ terms[k].variant = "PrefixExclude"}

Permute(pieces, p) == [k \in 1..Len(pieces) |-> pieces[p[k]]]

Perms(n) == {p \in [1..n -> 1..n] : \A a, b \in 1..n : p[a] = p[b] => a = b}

----------------------------------------------------------------------------
(* Claims *)

\* C1: when at least one term contributes an inclusion set the decision is
\* KeepOnly of (the intersection of all inclusion sets) minus (the union of
\* all exclusion sets); for a,!a,-b with all keys present that is
\* (prefixUnion(a) INTERSECT exact(a)) minus prefixUnion(b).
C1_KeepOnlyDecision ==
    (Finished /\ IncTerms # {}) =>
        /\ outcome.kind = "KeepOnly"
        /\ outcome.error = "none"
        /\ pc = "done"
        /\ outcome.ids =
             {x \in Ids : /\ \A k \in IncTerms : x \in terms[k].ids
                          /\ \A k \in ExcTerms : x \notin terms[k].ids}
        /\ (/\ queries = << <<"a">>, <<"!", "a">>, <<"-", "b">> >>
            /\ KeyUniverse \subseteq DOMAIN index)
           => outcome.ids =
                (prefixUnion(<<"a">>) \cap exact(<<"a">>)) \ prefixUnion(<<"b">>)

C1_Witness ==
    /\ pc = "done"
    /\ queries = << <<"a">>, <<"!", "a">>, <<"-", "b">> >>
    /\ KeyUniverse \subseteq DOMAIN index
    /\ outcome.kind = "KeepOnly"
    /\ outcome.ids # {}
    /\ outcome.ids # exact(<<"a">>)
    /\ Len(ids_include) = 2 /\ Len(ids_exclude) = 1

\* C2: a non-empty query without inclusion contribution ends, without
\* failing, in DropOnly of the union of all exclusion sets (the empty set when
\* there is no exclusion set either).
C2_DropOnlyNeverFails ==
    (Finished /\ IncTerms = {}) =>
        /\ outcome.kind = "DropOnly"
        /\ outcome.ids = UNION {terms[k].ids : k \in ExcTerms}

\* C3: the outcome (mode and ids, or failure) is the same for every
\* permutation of the comma separated tokens of the query.
C3_OrderIndependent ==
    (pc \in {"done", "raised"} /\ ~storeFailed /\ ~value.isNone) =>
        \A p \in Perms(Len(Split(value.s))) :
            Filter(Str(Join(Permute(Split(value.s), p))), index) = outcome

C3_Witness ==
    /\ pc = "done"
    /\ Len(queries) = 3
    /\ queries[1] # queries[2] /\ queries[2] # queries[3]
    /\ Cardinality(IncTerms) >= 2
    /\ ExcTerms # {}
    /\ \E a, b \in IncTerms : terms[a].ids # terms[b].ids
    /\ outcome.ids # {}

\* C4: a prefix term whose scan returns no key is omitted from its list:
\* adding such a token to a query with another inclusion contribution leaves
\* the decision unchanged.
C4_NoMatchOmitted ==
    /\ \A k \in 1..Len(terms) :
          (terms[k].scanned /\ terms[k].keys = {}) => ~terms[k].contributed
    /\ Len(ids_include) = Cardinality(IncTerms)
    /\ Len(ids_exclude) = Cardinality(ExcTerms)
    /\ (Finished /\ IncTerms # {}) =>
          \A t \in TokenSet :
             (Resolve(t, index).scanned /\ Resolve(t, index).keys = {}) =>
                /\ Filter(Str(value.s \o <<",">> \o t), index) = outcome
                /\ Filter(Str(t \o <<",">> \o value.s), index) = outcome

C4_Witness ==
    /\ pc = "done"
    /\ outcome.kind = "KeepOnly"
    /\ outcome.ids # {}
    /\ \E k \in 1..Len(terms) : terms[k].scanned /\ terms[k].keys = {}

\* C5: a prefix term with word w resolves to exactly the union of the sets
\* under every key beginning with the literal string namespace+w, for every
\* word the parser can produce.
C5_PrefixIsLiteral ==
    \A k \in 1..Len(terms) :
        terms[k].scanned =>
            /\ terms[k].keys = LiteralPrefixKeys(terms[k].word)
            /\ terms[k].contributed => terms[k].ids = prefixUnion(terms[k].word)

\* C6: a '!' term with word w contributes exactly the set stored under the
\* single key namespace+w (the empty set when absent), never ids stored only
\* under longer keys, and makes no prefix scan.
C6_ExactOnly ==
    \A k \in 1..Len(terms) :
        terms[k].variant = "ExactInclude" =>
            /\ ~terms[k].scanned
            /\ terms[k].contributed
            /\ terms[k].ids = exact(terms[k].word)
            /\ \E j \in 1..Len(ids_include) : ids_include[j] = terms[k].ids

C6_Witness ==
    \E k \in 1..Len(terms) :
        /\ terms[k].variant = "ExactInclude"
        /\ terms[k].word = <<"a">>
        /\ Key(<<"a", "b">>) \in DOMAIN index
        /\ ~(index[Key(<<"a", "b">>)] \subseteq terms[k].ids)

\* C7: the (variant, word) used for every piece is that of the specified
\* parser: trim, classify by the leading character, remove that one marker,
\* trim again.
C7_ParserAgrees ==
    \A k \in 1..Len(terms) :
        [variant |-> terms[k].variant, word |-> terms[k].word]
            = SpecTerm(terms[k].piece)

\* C8 as stated: a token that is empty after trimming matches no index key
\* and adds nothing to either list.
C8_EmptyTokenNoContribution ==
    \A k \in 1..Len(terms) :
        Strip(terms[k].piece) = <<>> =>
            terms[k].keys = {} /\ ~terms[k].contributed

\* C8 amended: a token that is empty after trimming is a prefix include of
\* the empty word: it matches every key under the namespace and adds the
\* union of their sets to the inclusion list, nothing only when the namespace
\* holds no key.
C8_EmptyTokenMatchesAll ==
    \A k \in 1..Len(terms) :
        Strip(terms[k].piece) = <<>> =>
            /\ terms[k].variant = "PrefixInclude"
            /\ terms[k].word = <<>>
            /\ terms[k].keys = DOMAIN index \cap KeyUniverse
            /\ terms[k].contributed <=> (DOMAIN index \cap KeyUniverse # {})
            /\ terms[k].contributed =>
                 /\ terms[k].ids =
                      UNION {index[key] : key \in DOMAIN index \cap KeyUniverse}
                 /\ \E j \in 1..Len(ids_include) : ids_include[j] = terms[k].ids
            /\ ids_exclude = <<>> \/ ExcTerms # {}

C8_Witness ==
    /\ pc = "done"
    /\ ForeignKey \in DOMAIN index
    /\ \E k \in 1..Len(terms) :
          /\ terms[k].piece = <<>>
          /\ Cardinality(terms[k].keys) >= 2
          /\ terms[k].contributed
          /\ terms[k].ids # Ids

\* C9: for an absent or empty value no term is parsed, no store call is made
\* and the queryset is returned as it was given.
C9_EmptyPassThrough ==
    IsEmptyValue =>
        /\ pc \in {"start", "done"}
        /\ r = "none"
        /\ queries = <<>> /\ terms = <<>>
        /\ ids_include = <<>> /\ ids_exclude = <<>>
        /\ ~storeFailed
        /\ pc = "done" => outcome = [kind |-> "qs", ids |-> {}, error |-> "none"]

C9_Witness ==
    /\ pc = "done"
    /\ ~value.isNone /\ value.s = <<>>
    /\ KeyUniverse \subseteq DOMAIN index
    /\ outcome.kind = "qs"

\* C10: when a store call fails the evaluation fails: the failure is the
\* outcome, and neither a restriction from the terms resolved so far nor the
\* unfiltered queryset is returned.
C10_StoreFailureRaises ==
    storeFailed =>
        /\ pc = "raised"
        /\ outcome = [kind |-> "raised", ids |-> {}, error |-> "StoreError"]

C10_Witness ==
    /\ storeFailed
    /\ ids_include # <<>>
    /\ r = "client"

====
